---- MODULE Spec2Model ----
(***************************************************************************)
(* State-machine model of the P4Frame media frame (src/media_frame.py,     *)
(* src/video_player_lib.py, src/slideshow_lib.py, src/config.py), of the   *)
(* converter service (src/video_converter.py) and of the standalone        *)
(* slideshow (src/main.py).                                                *)
(*                                                                         *)
(* One step of the model is one callback of the Tk main loop run to its    *)
(* end (a timer firing, a key press, the engine's end-of-video event), or  *)
(* one change of the media directory.  Python indices are kept 0-based:    *)
(* the entry at the cursor is media_queue[current_index + 1].              *)
(***************************************************************************)
EXTENDS Integers, Sequences, FiniteSets, TLC

\* ------------------------------------------------------------------ bounds
MaxPhotos == 3
MaxVideos == 2
MaxBatchSize == 2
MaxCacheSize == 1
MaxPending == 2
MaxOvershoot == 1
MaxDirChanges == 1
\* key_debounce_time (config.py: 0.5 s), in clock ticks
DebounceTicks == 1
MaxWorkers == 1
MaxTileLen == 4
MaxOriginals == 2
MaxAdds == 1

\* ------------------------------------------------------- program constants
screen_width == 1920
border_size == 30

VARIABLES
  \* configuration (config.py, read once by MediaFrame.__init__)
  batch_size, max_cache_size, video_enabled,
  \* the media directory
  dir_photos, dir_videos, dir_changes,
  \* MediaFrame
  all_image_files, video_files, current_batch_index, combined_images,
  media_queue, current_index,
  \* Tk: pending root.after callbacks and widgets
  after_delay, after_100, refresh_scheduled,
  label_image, label_packed, frame_packed,
  \* VideoPlayer / engine
  playing, current_video, on_complete_callback,
  \* preload threads started and not yet finished
  preload_threads,
  \* time.time() - last_key_time, in ticks, counted up to key_debounce_time
  key_elapsed,
  \* the tiler on its own: the scaled width of each photo, the list given to
  \* create_combined_images, the canvases returned, whether it has returned
  scaled_width, image_files, final_images, tiler_done,
  \* the converter service: its setting, the files of the watch directory and
  \* of the converted directory (conv_partial: those still being written),
  \* where run_once / convert_video stands and its locals
  delete_originals, watch_files, conv_files, conv_partial,
  conv_pc, conv_videos, input_path, returncode,
  \* converter history: what convert_video returned last, whether the final
  \* path existed when the attempt began, len(videos) of the last run_once,
  \* failures and successes of the cycle, files added since the last scan,
  \* the successes of the previous cycle when this scan follows a cycle
  \* without failure and without new files (else -1), the player's last scan
  \* of the converted directory and where the converter stood then
  conv_return, final_before, run_found, cycle_failed, cycle_ok,
  added_since_scan, rerun_after, scan_listed, scan_at, conv_adds,
  \* the standalone slideshow (main.py): where main stands, its image_files
  \* and loop variable i, whether the Slideshow object exists, the Slideshow's
  \* combined_images, index and photo on the label, the pending update_image
  \* and quit callbacks, the canvases displayed since the last reset (history)
  \* and how main ended
  main_pc, main_files, main_i, slideshow_created,
  sl_images, sl_index, sl_photo, sl_after, sl_quit, sl_displayed, main_exit,
  \* what the last callback did (history variable)
  trace

cfgVars == <<batch_size, max_cache_size, video_enabled>>
tilerVars == <<scaled_width, image_files, final_images, tiler_done>>
dirVars == <<dir_photos, dir_videos, dir_changes>>
progVars == <<all_image_files, video_files, current_batch_index, combined_images,
              media_queue, current_index, after_delay, after_100, refresh_scheduled,
              label_image, label_packed, frame_packed,
              playing, current_video, on_complete_callback,
              preload_threads, key_elapsed>>
convVars == <<delete_originals, watch_files, conv_files, conv_partial,
              conv_pc, conv_videos, input_path, returncode,
              conv_return, final_before, run_found, cycle_failed, cycle_ok,
              added_since_scan, rerun_after, scan_listed, scan_at, conv_adds>>
showVars == <<main_pc, main_files, main_i, slideshow_created,
              sl_images, sl_index, sl_photo, sl_after, sl_quit, sl_displayed,
              main_exit>>
\* What the converter's steps and the slideshow's steps leave alone.
convFrame == <<cfgVars, dirVars, progVars, tilerVars, showVars, trace>>
showFrame == <<cfgVars, dirVars, progVars, tilerVars, convVars, trace>>
vars == <<cfgVars, dirVars, progVars, tilerVars, convVars, showVars, trace>>

\* ----------------------------------------------------------------- helpers
Min(a, b) == IF a <= b THEN a ELSE b

\* Python s[a:b] for 0 <= a <= b (0-based, end exclusive, truncated at len).
Slice(s, a, b) ==
  IF a >= Len(s) THEN <<>> ELSE SubSeq(s, a + 1, Min(b, Len(s)))

\* Python s[-n:] for n > 0.
LastN(s, n) == IF Len(s) <= n THEN s ELSE SubSeq(s, Len(s) - n + 1, Len(s))

\* Python s[:-n] for n > 0.
DropLastN(s, n) == IF Len(s) <= n THEN <<>> ELSE SubSeq(s, 1, Len(s) - n)

RECURSIVE SortedSeq(_)
SortedSeq(S) ==
  IF S = {} THEN <<>>
  ELSE LET m == CHOOSE x \in S : \A y \in S : x <= y
       IN <<m>> \o SortedSeq(S \ {m})

\* ------------------------------------------------------------- directory
\* get_image_files: the photos found in the media directory.
get_image_files == [i \in 1..dir_photos |-> i]

\* get_video_files: the converted videos, sorted.
get_video_files == SortedSeq(dir_videos)

\* Image.open(image_file) succeeds only while the file is in the directory.
Readable(p) == p <= dir_photos

\* os.path.exists(video_path)
PathExists(v) == v \in dir_videos

\* Width of photo p once scaled to the canvas height (img.resize).
ScaledWidth(p) == scaled_width[p]

\* ------------------------------------------------------------ Image Tiler
\* sum(img.width for img in row_images)
RECURSIVE total_image_width(_)
total_image_width(row) ==
  IF row = <<>> THEN 0 ELSE ScaledWidth(Head(row)) + total_image_width(Tail(row))

\* The margin of a row: (screen_width - total_image_width) // num_gaps.
even_border_width(row) ==
  (screen_width - total_image_width(row)) \div (Len(row) + 1)

\* The paste loop from the k-th image of the row on, x_offset being the place
\* of that image: the x positions at which the images are pasted.
RECURSIVE PasteLoop(_, _, _)
PasteLoop(row, k, x_offset) ==
  IF k > Len(row) THEN <<>>
  ELSE <<x_offset>>
       \o PasteLoop(row, k + 1, x_offset + ScaledWidth(row[k]) + even_border_width(row))

\* Mutant of paste_offsets: the first image is pasted at x = 0.
paste_offsets_from_zero(row) == PasteLoop(row, 1, 0)

\* The x positions of the images of a row on its canvas.
paste_offsets(row) == PasteLoop(row, 1, even_border_width(row))

\* A canvas: the photos of its row, left to right, and where they are pasted.
\* A canvas is an Image object: age tells the objects apart that hold the same
\* picture, it counts the batch loads since Image.new created the object.
Canvas(row) == [row |-> row, x |-> paste_offsets(row), age |-> 0]
\* No canvas (photo 0 does not exist).
NoCanvas == [row |-> <<0>>, x |-> <<>>, age |-> 0]

\* The objects that exist when a batch is tiled are one load older afterwards,
\* in the collection and wherever the queue refers to them.
OlderCanvases(cs) == [k \in DOMAIN cs |-> [cs[k] EXCEPT !.age = @ + 1]]
OlderEntries(q) ==
  [k \in DOMAIN q |-> IF q[k].kind = "photo"
                      THEN [q[k] EXCEPT !.canvas.age = @ + 1] ELSE q[k]]

\* Mutant of PackRows: the fit test counts the images only, not the borders
\* between them.
RECURSIVE PackRows_ignores_borders(_, _, _, _, _)
PackRows_ignores_borders(files, i, row, width, acc) ==
  IF i > Len(files)
  THEN IF row # <<>> THEN Append(acc, row) ELSE acc
  ELSE LET w == ScaledWidth(files[i])
       IN IF total_image_width(row) + w <= screen_width
          THEN PackRows_ignores_borders(files, i + 1, Append(row, files[i]),
                                        width + w + border_size, acc)
          ELSE PackRows_ignores_borders(files, i + 1, <<files[i]>>,
                                        w + border_size, Append(acc, row))

\* Mutant of PackRows: a photo wider than the canvas is rejected (left out).
RECURSIVE PackRows_rejects_wide(_, _, _, _, _)
PackRows_rejects_wide(files, i, row, width, acc) ==
  IF i > Len(files)
  THEN IF row # <<>> THEN Append(acc, row) ELSE acc
  ELSE LET w == ScaledWidth(files[i])
       IN IF w > screen_width
          THEN PackRows_rejects_wide(files, i + 1, row, width, acc)
          ELSE IF width + w + Len(row) * border_size <= screen_width
          THEN PackRows_rejects_wide(files, i + 1, Append(row, files[i]),
                                     width + w + border_size, acc)
          ELSE PackRows_rejects_wide(files, i + 1, <<files[i]>>,
                                     w + border_size, Append(acc, row))

\* The packing loop of create_combined_images: the rows, each a list of photos.
RECURSIVE PackRows(_, _, _, _, _)
PackRows(files, i, row, width, acc) ==
  IF i > Len(files)
  THEN IF row # <<>> THEN Append(acc, row) ELSE acc
  ELSE LET w == ScaledWidth(files[i])
       IN IF width + w + Len(row) * border_size <= screen_width
          THEN PackRows(files, i + 1, Append(row, files[i]), width + w + border_size, acc)
          ELSE PackRows(files, i + 1, <<files[i]>>, w + border_size, Append(acc, row))

\* Mutant of create_combined_images: the row still open when the list ends is
\* not appended.
create_combined_images_drops_last_row(files) ==
  LET rows == PackRows(files, 1, <<>>, 0, <<>>)
  IN [k \in 1..(Len(rows) - 1) |-> Canvas(rows[k])]

\* create_combined_images: one canvas per row.
create_combined_images(files) ==
  LET rows == PackRows(files, 1, <<>>, 0, <<>>)
  IN [k \in 1..Len(rows) |-> Canvas(rows[k])]

\* ------------------------------------------------- the callbacks, as functions
\* A callback maps the program state m (a record of the MediaFrame, Tk and
\* VideoPlayer fields, plus the trace of what the callback did) to the state it
\* leaves.  An exception (trace.err) aborts the rest of the callback.

NoTrace(op) ==
  [op |-> op, err |-> "none", boundary |-> FALSE, preload |-> FALSE,
   loaded |-> FALSE, load_batch |-> 0, load_slice |-> <<>>, load_before |-> <<>>,
   released |-> <<>>, hasMore |-> FALSE, built |-> FALSE, shown |-> -1,
   missing |-> -1, index_before |-> 0, batch_before |-> 0, played |-> FALSE,
   on_complete_calls |-> 0, read_index |-> -1, read_len |-> -1]

Raise(m, e) == [m EXCEPT !.trace.err = e]

\* Sequencing: the state e a step leaves, evaluated once, handed to the rest F.
Then(e, F(_)) == CHOOSE r \in {F(x) : x \in {e}} : TRUE

\* Mutant of manage_batch_cache: keeps the oldest canvases and closes the newest.
manage_batch_cache_keep_oldest(m) ==
  LET max_combined == max_cache_size * 3
  IN IF Len(m.combined_images) > max_combined
     THEN [m EXCEPT !.trace.released =
                      SubSeq(m.combined_images, max_combined + 1, Len(m.combined_images)),
                    !.combined_images = SubSeq(m.combined_images, 1, max_combined)]
     ELSE m

\* manage_batch_cache: keep the last max_cache_size * 3 canvases, close the rest.
manage_batch_cache(m) ==
  LET max_combined == max_cache_size * 3
  IN IF Len(m.combined_images) > max_combined
     THEN [m EXCEPT !.trace.released = DropLastN(m.combined_images, max_combined),
                    !.combined_images = LastN(m.combined_images, max_combined)]
     ELSE m

\* Mutant of process_next_batch: the slice starts one photo late.
process_next_batch_late_start(m) ==
  LET start_idx == m.current_batch_index * batch_size + 1
      end_idx == start_idx + batch_size
      batch_files == Slice(m.all_image_files, start_idx, end_idx)
      m1 == [m EXCEPT !.trace.loaded = TRUE,
                      !.trace.load_batch = m.current_batch_index,
                      !.trace.load_slice = batch_files,
                      !.trace.load_before = m.combined_images]
  IN IF batch_files # <<>>
     THEN IF \E i \in DOMAIN batch_files : ~Readable(batch_files[i])
          THEN Raise(m1, "DecodeError")
          ELSE LET batch_combined == create_combined_images(batch_files)
                   m2 == [m1 EXCEPT !.combined_images =
                                      OlderCanvases(@) \o batch_combined,
                                    !.media_queue = OlderEntries(@),
                                    !.trace.load_before = OlderCanvases(@)]
               IN [manage_batch_cache(m2) EXCEPT !.trace.hasMore = TRUE]
     ELSE [m1 EXCEPT !.trace.hasMore = FALSE]

\* Mutant of process_next_batch: the canvases of the photos that precede the
\* undecodable one are added before the failure is raised.
process_next_batch_keeps_partial(m) ==
  LET start_idx == m.current_batch_index * batch_size
      end_idx == start_idx + batch_size
      batch_files == Slice(m.all_image_files, start_idx, end_idx)
      good == SelectSeq(batch_files, Readable)
      m1 == [m EXCEPT !.trace.loaded = TRUE,
                      !.trace.load_batch = m.current_batch_index,
                      !.trace.load_slice = batch_files,
                      !.trace.load_before = m.combined_images]
  IN IF batch_files # <<>>
     THEN IF \E i \in DOMAIN batch_files : ~Readable(batch_files[i])
          THEN Raise([m1 EXCEPT !.combined_images =
                                   @ \o create_combined_images(good)],
                     "DecodeError")
          ELSE LET batch_combined == create_combined_images(batch_files)
                   m2 == [m1 EXCEPT !.combined_images =
                                      OlderCanvases(@) \o batch_combined,
                                    !.media_queue = OlderEntries(@),
                                    !.trace.load_before = OlderCanvases(@)]
               IN [manage_batch_cache(m2) EXCEPT !.trace.hasMore = TRUE]
     ELSE [m1 EXCEPT !.trace.hasMore = FALSE]

\* process_next_batch: tile the slice of the batch index; trace.hasMore is the
\* value returned.  Image.open raises on a file that is gone.  trace.load_before
\* is the collection the loader found (the same objects, as they are now).
process_next_batch(m) ==
  LET start_idx == m.current_batch_index * batch_size
      end_idx == start_idx + batch_size
      batch_files == Slice(m.all_image_files, start_idx, end_idx)
      m1 == [m EXCEPT !.trace.loaded = TRUE,
                      !.trace.load_batch = m.current_batch_index,
                      !.trace.load_slice = batch_files,
                      !.trace.load_before = m.combined_images]
  IN IF batch_files # <<>>
     THEN IF \E i \in DOMAIN batch_files : ~Readable(batch_files[i])
          THEN Raise(m1, "DecodeError")
          ELSE LET batch_combined == create_combined_images(batch_files)
                   m2 == [m1 EXCEPT !.combined_images =
                                      OlderCanvases(@) \o batch_combined,
                                    !.media_queue = OlderEntries(@),
                                    !.trace.load_before = OlderCanvases(@)]
               IN [manage_batch_cache(m2) EXCEPT !.trace.hasMore = TRUE]
     ELSE [m1 EXCEPT !.trace.hasMore = FALSE]

PhotoEntry(c) == [kind |-> "photo", canvas |-> c, video |-> 0]
VideoEntry(v) == [kind |-> "video", canvas |-> NoCanvas, video |-> v]

\* The loop of create_media_queue, from i (0-based) on.
RECURSIVE Alternate(_, _, _)
Alternate(photos, videos, i) ==
  IF i >= Len(photos) /\ i >= Len(videos) THEN <<>>
  ELSE (IF i < Len(photos) THEN <<PhotoEntry(photos[i + 1])>> ELSE <<>>)
       \o (IF i < Len(videos) THEN <<VideoEntry(videos[i + 1])>> ELSE <<>>)
       \o Alternate(photos, videos, i + 1)

\* Mutant of create_media_queue: the videos are taken from the directory as it
\* is now, not from the list of the last scan.
create_media_queue_rescans_videos(m) ==
  [m EXCEPT !.media_queue = Alternate(m.combined_images, get_video_files, 0),
            !.trace.built = TRUE]

\* create_media_queue
create_media_queue(m) ==
  [m EXCEPT !.media_queue = Alternate(m.combined_images, m.video_files, 0),
            !.trace.built = TRUE]

\* preload_next_batch: starts a daemon thread that runs load_batch.
preload_next_batch(m) ==
  [m EXCEPT !.trace.preload = TRUE, !.preload_threads = @ + 1]

\* Mutant of load_batch: the thread loads the next batch into the collection.
load_batch_loads(m) ==
  [process_next_batch([m EXCEPT !.current_batch_index = @ + 1])
     EXCEPT !.preload_threads = @ - 1, !.trace = m.trace]

\* load_batch, the body of the preload thread: it reads the batch index and
\* slices the photo list into a local, prints, and ends.
load_batch(m) ==
  LET next_batch_index == m.current_batch_index + 1
      start_idx == next_batch_index * batch_size
      end_idx == start_idx + batch_size
      batch_files == IF start_idx < Len(m.all_image_files)
                     THEN Slice(m.all_image_files, start_idx, end_idx) ELSE <<>>
  IN \* batch_files is only printed
     [m EXCEPT !.preload_threads = @ - 1]

\* show_photo
show_photo(m, combined_image) ==
  [m EXCEPT !.frame_packed = IF video_enabled THEN FALSE ELSE @,
            !.label_image = combined_image,
            !.label_packed = TRUE,
            !.after_delay = @ + 1,
            !.trace.shown = m.current_index]

\* Mutant of play_video: the video and the callback are stored before the path
\* is tested.
play_video_stores_first(m, video_path, on_complete) ==
  IF ~PathExists(video_path)
  THEN [m EXCEPT !.current_video = video_path,
                 !.on_complete_callback = on_complete,
                 !.trace.played = TRUE,
                 !.trace.missing = m.current_index,
                 !.trace.on_complete_calls =
                    IF on_complete # "None" THEN @ + 1 ELSE @]
  ELSE [m EXCEPT !.current_video = video_path,
                 !.on_complete_callback = on_complete,
                 !.frame_packed = TRUE,
                 !.playing = TRUE,
                 !.trace.shown = m.current_index,
                 !.trace.played = TRUE]

\* VideoPlayer.play_video.  A path that is gone: on_complete is called at once
\* (trace.on_complete_calls counts the calls this invocation makes) and nothing
\* is stored.  A path that exists: the engine starts on the new media and the
\* completion callback is stored.
play_video(m, video_path, on_complete) ==
  IF ~PathExists(video_path)
  THEN [m EXCEPT !.trace.played = TRUE,
                 !.trace.missing = m.current_index,
                 !.trace.on_complete_calls =
                    IF on_complete # "None" THEN @ + 1 ELSE @]
  ELSE [m EXCEPT !.current_video = video_path,
                 !.on_complete_callback = on_complete,
                 !.frame_packed = TRUE,
                 !.playing = TRUE,
                 !.trace.shown = m.current_index,
                 !.trace.played = TRUE]

\* show_video with on_complete = show_next_media.  When play_video has called
\* on_complete(), show_next_media runs again with the cursor not yet moved,
\* reaches the same entry and calls play_video again, until the interpreter
\* raises RecursionError through every frame.
show_video(m, video_path) ==
  LET m1 == [m EXCEPT !.label_packed = FALSE, !.frame_packed = TRUE]
  IN Then(play_video(m1, video_path, "show_next_media"),
          LAMBDA m2 : IF m2.trace.on_complete_calls > 0
                      THEN Raise(m2, "RecursionError") ELSE m2)

\* Mutant of boundary_rollover: the queue is not rebuilt after the load.
boundary_rollover_keeps_queue(m) ==
  LET b1 == m.current_batch_index + 1
      b == IF b1 * batch_size >= Len(m.all_image_files) THEN 0 ELSE b1
  IN Then(process_next_batch([m EXCEPT !.current_batch_index = b,
                                        !.trace.boundary = TRUE]),
          LAMBDA m1 :
            IF m1.trace.err # "none" THEN m1
            ELSE [m1 EXCEPT !.current_index = 0])

\* Mutant of boundary_rollover: the cursor is not reset to 0.
boundary_rollover_keeps_cursor(m) ==
  LET b1 == m.current_batch_index + 1
      b == IF b1 * batch_size >= Len(m.all_image_files) THEN 0 ELSE b1
  IN Then(process_next_batch([m EXCEPT !.current_batch_index = b,
                                        !.trace.boundary = TRUE]),
          LAMBDA m1 :
            IF m1.trace.err # "none" THEN m1
            ELSE IF m1.trace.hasMore THEN create_media_queue(m1) ELSE m1)

\* Mutant of boundary_rollover: the batch index is not wrapped to 0.
boundary_rollover_no_wrap(m) ==
  LET b == m.current_batch_index + 1
  IN Then(process_next_batch([m EXCEPT !.current_batch_index = b,
                                        !.trace.boundary = TRUE]),
          LAMBDA m1 :
            IF m1.trace.err # "none" THEN m1
            ELSE IF m1.trace.hasMore
                 THEN [create_media_queue(m1) EXCEPT !.current_index = 0]
                 ELSE [m1 EXCEPT !.current_index = 0])

\* show_next_media, lines 187-202: the end of the queue is reached.
boundary_rollover(m) ==
  LET b1 == m.current_batch_index + 1
      b == IF b1 * batch_size >= Len(m.all_image_files) THEN 0 ELSE b1
  IN Then(process_next_batch([m EXCEPT !.current_batch_index = b,
                                        !.trace.boundary = TRUE]),
          LAMBDA m1 :
            IF m1.trace.err # "none" THEN m1
            ELSE IF m1.trace.hasMore
                 THEN [create_media_queue(m1) EXCEPT !.current_index = 0]
                 ELSE [m1 EXCEPT !.current_index = 0])

\* The read media_queue[current_index]: a Python list takes an index from
\* -len to len - 1 and raises IndexError for any other.
read_media_queue(m) ==
  LET r == [m EXCEPT !.trace.read_index = m.current_index,
                     !.trace.read_len = Len(m.media_queue)]
  IN IF -Len(m.media_queue) <= m.current_index
        /\ m.current_index < Len(m.media_queue)
     THEN r ELSE Raise(r, "IndexError")

\* The item a read inside the range returns.
media_item(m) == m.media_queue[(m.current_index % Len(m.media_queue)) + 1]

\* show_next_media, lines 204-218: show the entry at the cursor, move the cursor.
show_current(m) ==
  Then(read_media_queue(m),
       LAMBDA r :
         IF r.trace.err # "none" THEN r
         ELSE LET e == media_item(r)
              IN IF e.kind = "photo"
                 THEN [show_photo(r, e.canvas) EXCEPT !.current_index = @ + 1]
                 ELSE IF video_enabled
                      THEN Then(show_video(r, e.video),
                                LAMBDA m1 : IF m1.trace.err # "none" THEN m1
                                            ELSE [m1 EXCEPT !.current_index = @ + 1])
                      ELSE [r EXCEPT !.current_index = @ + 1, !.after_100 = @ + 1])

\* show_next_media
show_next_media(m) ==
  IF m.media_queue = <<>> THEN m
  ELSE IF m.current_index > 0 /\ batch_size \div 2 = 0
       THEN Raise(m, "ZeroDivisionError")
       ELSE Then(IF m.current_index > 0
                    /\ m.current_index % (batch_size \div 2) = 0
                 THEN preload_next_batch(m) ELSE m,
                 LAMBDA m1 :
                   Then(IF m1.current_index >= Len(m1.media_queue)
                        THEN boundary_rollover(m1) ELSE m1,
                        LAMBDA m2 :
                          IF m2.trace.err # "none" THEN m2 ELSE show_current(m2)))

\* navigate_next
navigate_next(m) == show_next_media([m EXCEPT !.current_index = @ + 1])

\* show_media_at_index_with_auto_advance, entered with a cursor inside a
\* non-empty queue (navigate_previous has clamped it).
show_media_at_index_with_auto_advance(m) ==
  LET m00 == IF m.current_index >= Len(m.media_queue)
             THEN [m EXCEPT !.current_index = 0] ELSE m
  IN IF m.media_queue = <<>> THEN m
     ELSE Then(read_media_queue(m00),
       LAMBDA m0 :
         IF m0.trace.err # "none" THEN m0
         ELSE LET e == media_item(m0)
         IN IF e.kind = "photo"
            THEN \* video_player.hide(), then "pil_image, _ = media_item" on an Image
                 Raise([m0 EXCEPT !.frame_packed = IF video_enabled THEN FALSE ELSE @],
                       "TypeError")
            ELSE IF ~PathExists(e.video)
                 THEN [m0 EXCEPT !.current_index = @ + 1, !.after_100 = @ + 1,
                                 !.trace.missing = m0.current_index]
                 ELSE IF ~video_enabled
                      THEN \* self.video_player is None
                           Raise([m0 EXCEPT !.label_packed = FALSE], "AttributeError")
                      ELSE LET m1 == [m0 EXCEPT !.label_packed = FALSE,
                                                !.frame_packed = TRUE,
                                                !.current_index = @ + 1]
                           IN [play_video(m1, e.video, "show_next_media")
                                 EXCEPT !.trace.shown = m0.current_index])

\* navigate_previous
navigate_previous(m) ==
  LET m1 == IF m.media_queue = <<>> THEN create_media_queue(m) ELSE m
      i1 == m1.current_index - 1
      i2 == IF i1 < 0 THEN Len(m1.media_queue) - 1 ELSE i1
      i3 == IF i2 >= Len(m1.media_queue) THEN Len(m1.media_queue) - 1 ELSE i2
  IN IF m1.media_queue = <<>> THEN m1
     ELSE show_media_at_index_with_auto_advance([m1 EXCEPT !.current_index = i3])

\* Mutant of on_volume_up: the key is honoured whatever the time elapsed.
on_volume_up_no_debounce(m) ==
  navigate_next([m EXCEPT !.key_elapsed = 0, !.trace.op = "navigate_next"])

\* on_volume_up: ignored inside the debounce window, else last_key_time is set
\* to now and navigate_next runs.
on_volume_up(m) ==
  IF m.key_elapsed < DebounceTicks THEN m
  ELSE navigate_next([m EXCEPT !.key_elapsed = 0, !.trace.op = "navigate_next"])

\* on_volume_down
on_volume_down(m) ==
  IF m.key_elapsed < DebounceTicks THEN m
  ELSE navigate_previous([m EXCEPT !.key_elapsed = 0,
                                   !.trace.op = "navigate_previous"])

\* refresh_media
refresh_media(m) ==
  LET new_images == get_image_files
      m1 == [m EXCEPT !.all_image_files = new_images]
      new_videos == get_video_files
      r == [m1 EXCEPT !.all_image_files = new_images,
                      !.video_files = new_videos,
                      !.current_batch_index = 0,
                      !.combined_images = <<>>]
  IN Then(IF Len(new_images) # Len(m1.all_image_files)
             \/ Len(new_videos) # Len(m1.video_files)
          THEN Then(IF r.all_image_files # <<>> THEN process_next_batch(r) ELSE r,
                    LAMBDA l : IF l.trace.err # "none" THEN l
                               ELSE create_media_queue(l))
          ELSE m1,
          LAMBDA m2 :
            \* an exception leaves before root.after re-arms the refresh
            IF m2.trace.err # "none"
            THEN [m2 EXCEPT !.refresh_scheduled = FALSE]
            ELSE [m2 EXCEPT !.refresh_scheduled = TRUE])

\* VideoPlayer.on_video_ended
on_video_ended(m) ==
  LET m1 == [m EXCEPT !.playing = FALSE]
  IN IF m1.on_complete_callback # "None"
     THEN [m1 EXCEPT !.after_100 = @ + 1] ELSE m1

\* MediaFrame.__init__, from the scan of the media directory to the first
\* show_next_media().
construct ==
  LET m0 == [all_image_files |-> get_image_files,
             video_files |-> get_video_files,
             current_batch_index |-> 0,
             combined_images |-> <<>>,
             media_queue |-> <<>>,
             current_index |-> 0,
             after_delay |-> 0, after_100 |-> 0, refresh_scheduled |-> TRUE,
             label_image |-> NoCanvas, label_packed |-> FALSE,
             frame_packed |-> video_enabled,
             playing |-> FALSE, current_video |-> 0,
             on_complete_callback |-> "None",
             preload_threads |-> 0,
             key_elapsed |-> DebounceTicks,
             trace |-> NoTrace("__init__")]
  IN Then(process_next_batch(m0),
          LAMBDA m1 :
            Then(create_media_queue(m1),
                 LAMBDA m2 : show_next_media([m2 EXCEPT !.current_index = 0])))

\* ------------------------------------------------------------ the machine
Cur ==
  [all_image_files |-> all_image_files, video_files |-> video_files,
   current_batch_index |-> current_batch_index,
   combined_images |-> combined_images, media_queue |-> media_queue,
   current_index |-> current_index,
   after_delay |-> after_delay, after_100 |-> after_100,
   refresh_scheduled |-> refresh_scheduled,
   label_image |-> label_image, label_packed |-> label_packed,
   frame_packed |-> frame_packed,
   playing |-> playing, current_video |-> current_video,
   on_complete_callback |-> on_complete_callback,
   preload_threads |-> preload_threads,
   key_elapsed |-> key_elapsed,
   trace |-> trace]

\* The state a callback named op starts from.
Begin(op) ==
  [Cur EXCEPT !.trace = [NoTrace(op) EXCEPT !.index_before = current_index,
                                            !.batch_before = current_batch_index]]

\* The callback's result becomes the next state (r is m, evaluated once).
Commit(m) ==
  \E r \in {m} :
    /\ r.preload_threads <= MaxWorkers
    /\ all_image_files' = r.all_image_files
    /\ video_files' = r.video_files
    /\ current_batch_index' = r.current_batch_index
    /\ combined_images' = r.combined_images
    /\ media_queue' = r.media_queue
    /\ current_index' = r.current_index
    /\ after_delay' = r.after_delay
    /\ after_100' = r.after_100
    /\ refresh_scheduled' = r.refresh_scheduled
    /\ label_image' = r.label_image
    /\ label_packed' = r.label_packed
    /\ frame_packed' = r.frame_packed
    /\ playing' = r.playing
    /\ current_video' = r.current_video
    /\ on_complete_callback' = r.on_complete_callback
    /\ preload_threads' = r.preload_threads
    /\ key_elapsed' = r.key_elapsed
    /\ trace' = r.trace

Pending == after_delay + after_100

\* The program as MediaFrame.__init__ leaves it.
Started ==
  /\ all_image_files = construct.all_image_files
  /\ video_files = construct.video_files
  /\ current_batch_index = construct.current_batch_index
  /\ combined_images = construct.combined_images
  /\ media_queue = construct.media_queue
  /\ current_index = construct.current_index
  /\ after_delay = construct.after_delay
  /\ after_100 = construct.after_100
  /\ refresh_scheduled = construct.refresh_scheduled
  /\ label_image = construct.label_image
  /\ label_packed = construct.label_packed
  /\ frame_packed = construct.frame_packed
  /\ playing = construct.playing
  /\ current_video = construct.current_video
  /\ on_complete_callback = construct.on_complete_callback
  /\ preload_threads = construct.preload_threads
  /\ key_elapsed = construct.key_elapsed
  /\ trace = construct.trace

\* The converter service is not running and its directories are empty.
ConverterOff ==
  /\ delete_originals = FALSE
  /\ watch_files = {}
  /\ conv_files = {}
  /\ conv_partial = {}
  /\ conv_pc = "off"
  /\ conv_videos = <<>>
  /\ input_path = <<>>
  /\ returncode = "none"
  /\ conv_return = "none"
  /\ final_before = FALSE
  /\ run_found = -1
  /\ cycle_failed = FALSE
  /\ cycle_ok = 0
  /\ added_since_scan = FALSE
  /\ rerun_after = -1
  /\ scan_listed = {}
  /\ scan_at = "none"
  /\ conv_adds = 0

\* The standalone slideshow is not running.
SlideshowOff ==
  /\ main_pc = "off"
  /\ main_files = <<>>
  /\ main_i = 0
  /\ slideshow_created = FALSE
  /\ sl_images = <<>>
  /\ sl_index = 0
  /\ sl_photo = NoCanvas
  /\ sl_after = 0
  /\ sl_quit = FALSE
  /\ sl_displayed = <<>>
  /\ main_exit = "running"

\* The photos of the media directory: two photos of width 900 share a row of
\* the 1920 canvas, a photo of width 1300 does not.
PhotoWidths == [p \in 1..MaxPhotos |-> IF p % 3 = 0 THEN 1300 ELSE 900]

Init ==
  /\ batch_size \in 1..MaxBatchSize
  /\ max_cache_size \in 1..MaxCacheSize
  /\ video_enabled \in BOOLEAN
  /\ dir_photos \in 0..MaxPhotos
  /\ dir_videos \in SUBSET (1..MaxVideos)
  /\ dir_changes = 0
  /\ scaled_width = PhotoWidths
  /\ image_files = <<>>
  /\ final_images = <<>>
  /\ tiler_done = FALSE
  /\ ConverterOff
  /\ SlideshowOff
  /\ Started

\* root.after(photo_delay, show_next_media) fires.
TimerPhotoDelay ==
  /\ after_delay > 0
  /\ Commit(show_next_media([Begin("timer") EXCEPT !.after_delay = @ - 1]))
  /\ UNCHANGED <<cfgVars, tilerVars, convVars, showVars, dirVars>>

\* root.after(100, show_next_media) fires.
Timer100 ==
  /\ after_100 > 0
  /\ Commit(show_next_media([Begin("timer") EXCEPT !.after_100 = @ - 1]))
  /\ UNCHANGED <<cfgVars, tilerVars, convVars, showVars, dirVars>>

\* The engine reaches the end of the video it plays (MediaPlayerEndReached).
VideoEnded ==
  /\ playing
  /\ Pending < MaxPending
  /\ Commit(on_video_ended(Begin("on_video_ended")))
  /\ UNCHANGED <<cfgVars, tilerVars, convVars, showVars, dirVars>>

\* A volume-up key press.
KeyNext ==
  /\ Pending < MaxPending
  /\ current_index < Len(media_queue) + MaxOvershoot
  /\ Commit(on_volume_up(Begin("on_volume_up")))
  /\ UNCHANGED <<cfgVars, tilerVars, convVars, showVars, dirVars>>

\* A volume-down key press.
KeyPrevious ==
  /\ Pending < MaxPending
  /\ Commit(on_volume_down(Begin("on_volume_down")))
  /\ UNCHANGED <<cfgVars, tilerVars, convVars, showVars, dirVars>>

\* Time passes: time.time() moves one tick away from last_key_time.
Tick ==
  /\ key_elapsed < DebounceTicks
  /\ key_elapsed' = key_elapsed + 1
  /\ UNCHANGED <<cfgVars, tilerVars, convVars, showVars, dirVars, all_image_files, video_files,
                 current_batch_index, combined_images, media_queue,
                 current_index, after_delay, after_100, refresh_scheduled,
                 label_image, label_packed, frame_packed,
                 playing, current_video, on_complete_callback,
                 preload_threads, trace>>

\* A preload thread runs (it shares no lock with the Tk main loop).
PreloadWorker ==
  /\ preload_threads > 0
  /\ Commit(load_batch(Cur))
  /\ UNCHANGED <<cfgVars, tilerVars, convVars, showVars, dirVars>>

\* root.after(refresh_interval, refresh_media) fires (or main's first call).
Refresh ==
  /\ refresh_scheduled
  /\ Commit(refresh_media(Begin("refresh_media")))
  /\ UNCHANGED <<cfgVars, tilerVars, convVars, showVars, dirVars>>

\* The media directory changes under the running program.
AddPhoto ==
  /\ dir_changes < MaxDirChanges
  /\ dir_changes' = dir_changes + 1
  /\ dir_photos < MaxPhotos
  /\ dir_photos' = dir_photos + 1
  /\ UNCHANGED <<cfgVars, tilerVars, convVars, showVars, dir_videos, progVars, trace>>

RemovePhoto ==
  /\ dir_changes < MaxDirChanges
  /\ dir_changes' = dir_changes + 1
  /\ dir_photos > 0
  /\ dir_photos' = dir_photos - 1
  /\ UNCHANGED <<cfgVars, tilerVars, convVars, showVars, dir_videos, progVars, trace>>

AddVideo ==
  /\ dir_changes < MaxDirChanges
  /\ dir_changes' = dir_changes + 1
  /\ \E v \in (1..MaxVideos) \ dir_videos : dir_videos' = dir_videos \cup {v}
  /\ UNCHANGED <<cfgVars, tilerVars, convVars, showVars, dir_photos, progVars, trace>>

RemoveVideo ==
  /\ dir_changes < MaxDirChanges
  /\ dir_changes' = dir_changes + 1
  /\ \E v \in dir_videos : dir_videos' = dir_videos \ {v}
  /\ UNCHANGED <<cfgVars, tilerVars, convVars, showVars, dir_photos, progVars, trace>>

Next ==
  \/ TimerPhotoDelay
  \/ Timer100
  \/ VideoEnded
  \/ KeyNext
  \/ KeyPrevious
  \/ Tick
  \/ PreloadWorker
  \/ Refresh
  \/ AddPhoto
  \/ RemovePhoto
  \/ AddVideo
  \/ RemoveVideo

Spec == Init /\ [][Next]_vars

\* Timer-driven playback: no key is pressed, the directory is left alone and no
\* refresh runs.  Tk fires every due timer, the engine plays a video to its end
\* and a started thread runs to its end.
TimerNext ==
  \/ TimerPhotoDelay
  \/ Timer100
  \/ VideoEnded
  \/ PreloadWorker

TimerSpec ==
  /\ Init
  /\ [][TimerNext]_vars
  /\ WF_vars(TimerPhotoDelay)
  /\ WF_vars(Timer100)
  /\ WF_vars(VideoEnded)
  /\ WF_vars(PreloadWorker)

\* The tiler on its own: create_combined_images applied to a list of up to
\* MaxTileLen photos whose scaled widths range over TileWidths (three photos of
\* 600 fill a row exactly by the code's test, three of 610 do not, 2000 is
\* wider than the canvas).
TileWidths == {600, 610, 900, 1300, 2000}

TilerInit ==
  /\ batch_size = 1
  /\ max_cache_size = 1
  /\ video_enabled = FALSE
  /\ dir_photos = 0
  /\ dir_videos = {}
  /\ dir_changes = 0
  /\ \E n \in 0..MaxTileLen :
       /\ scaled_width \in [1..n -> TileWidths]
       /\ image_files = [i \in 1..n |-> i]
  /\ final_images = <<>>
  /\ tiler_done = FALSE
  /\ ConverterOff
  /\ SlideshowOff
  /\ Started

\* create_combined_images(image_files, screen_width, screen_height) returns.
Tile ==
  /\ ~tiler_done
  /\ final_images' = create_combined_images(image_files)
  /\ tiler_done' = TRUE
  /\ UNCHANGED <<cfgVars, dirVars, progVars, convVars, showVars, scaled_width,
                 image_files, trace>>

TilerSpec == TilerInit /\ [][Tile]_vars

\* ================================================================ claims

\* ------------------------------------------------- the converter service
\* File names are lists of parts: "a.mov" is <<"a", ".mov">>, its converted
\* output "a_h264.mp4" is <<"a", "_h264", ".mp4">>.
supported_video_formats ==
  {".mp4", ".avi", ".mov", ".mkv", ".wmv", ".flv", ".webm", ".m4v"}

\* The files that may lie in the watch directory.
AllOriginals ==
  {<<"a", ".mp4">>, <<"a", ".mov">>, <<"c", ".mp4">>,
   <<"converted_b", ".mp4">>, <<".d", ".mp4">>, <<"a", ".txt">>}

\* file.lower().endswith(video_extensions) and not file.startswith('.')
is_video_name(file) ==
  /\ file[Len(file)] \in supported_video_formats
  /\ file[1] \notin {".d"}

\* 'converted' in file_path
contains_converted(file) == file[1] \in {"converted_b"}

\* Path(file).stem
stem(file) == SubSeq(file, 1, Len(file) - 1)

\* os.path.join(converted_dir, f"{stem}_h264.mp4")
output_path(file) == stem(file) \o <<"_h264", ".mp4">>

\* Mutant of temp_path: the encoder writes to the final name.
temp_path_is_output(out) == out

\* temp_path = output_path + '.tmp'
temp_path(out) == Append(out, ".tmp")

\* Mutant of find_unconverted_videos: the converted output is not looked for.
find_unconverted_videos_all ==
  {file \in watch_files : is_video_name(file) /\ ~contains_converted(file)}

\* find_unconverted_videos
find_unconverted_videos ==
  {file \in watch_files :
     /\ is_video_name(file)
     /\ ~contains_converted(file)
     /\ output_path(file) \notin conv_files}

\* MediaFrame.get_video_files applied to the converted directory.
scan_converted == {file \in conv_files : is_video_name(file)}

\* The orders os.listdir may list a set of files in.
ListingsOf(S) ==
  {order \in [1..Cardinality(S) -> S] :
     \A i, j \in 1..Cardinality(S) : i # j => order[i] # order[j]}

\* Mutant of remove_temp: the temporary file is left behind.
remove_temp_keeps(files, temp) == files

\* if os.path.exists(temp_path): os.remove(temp_path)
remove_temp(files, temp) == files \ {temp}

\* convert_video returns v; the for loop of run_once goes on.
Return(v) ==
  /\ conv_return' = v
  /\ cycle_failed' = (cycle_failed \/ v = "False")
  /\ cycle_ok' = (IF v = "True" THEN cycle_ok + 1 ELSE cycle_ok)
  /\ conv_pc' = IF conv_videos = <<>> THEN "idle" ELSE "convert"

\* run_once: the scan of the watch directory.
RunOnce ==
  /\ conv_pc = "idle"
  /\ \E order \in ListingsOf(find_unconverted_videos) :
       /\ conv_videos' = order
       /\ run_found' = Len(order)
       /\ conv_pc' = IF order = <<>> THEN "idle" ELSE "convert"
  /\ rerun_after' = IF run_found # -1 /\ ~cycle_failed /\ ~added_since_scan
                    THEN cycle_ok ELSE -1
  /\ cycle_failed' = FALSE
  /\ cycle_ok' = 0
  /\ added_since_scan' = FALSE
  /\ UNCHANGED <<delete_originals, watch_files, conv_files, conv_partial,
                 input_path, returncode, conv_return, final_before,
                 scan_listed, scan_at, conv_adds>>
  /\ UNCHANGED convFrame

\* convert_video up to subprocess.run: the encoder starts and opens the
\* temporary file, or fails before it has written anything, or cannot be
\* started (an exception).
ConvStart ==
  /\ conv_pc = "convert"
  /\ conv_videos # <<>>
  /\ input_path' = Head(conv_videos)
  /\ conv_videos' = Tail(conv_videos)
  /\ final_before' = (output_path(Head(conv_videos)) \in conv_files)
  /\ conv_return' = "none"
  /\ \E how \in {"run", "fail", "exception"} :
       IF how = "run"
       THEN /\ conv_files' = conv_files \cup {temp_path(output_path(Head(conv_videos)))}
            /\ conv_partial' = conv_partial \cup {temp_path(output_path(Head(conv_videos)))}
            /\ returncode' = "none"
            /\ conv_pc' = "encoding"
       ELSE /\ returncode' = how
            /\ conv_pc' = "exited"
            /\ UNCHANGED <<conv_files, conv_partial>>
  /\ UNCHANGED <<delete_originals, watch_files, run_found, cycle_failed, cycle_ok,
                 added_since_scan, rerun_after, scan_listed, scan_at, conv_adds>>
  /\ UNCHANGED convFrame

\* The encoder ends: exit status 0 with the output complete, a non-zero exit
\* status, or the timeout of subprocess.run (the encoder is killed).
EncoderExit ==
  /\ conv_pc = "encoding"
  /\ \E rc \in {"ok", "fail", "timeout"} :
       /\ returncode' = rc
       /\ conv_partial' = IF rc = "ok"
                          THEN conv_partial \ {temp_path(output_path(input_path))}
                          ELSE conv_partial
  /\ conv_pc' = "exited"
  /\ UNCHANGED <<delete_originals, watch_files, conv_files, conv_videos, input_path,
                 conv_return, final_before, run_found, cycle_failed, cycle_ok,
                 added_since_scan, rerun_after, scan_listed, scan_at, conv_adds>>
  /\ UNCHANGED convFrame

\* convert_video after subprocess.run: on exit status 0 the temporary file is
\* renamed to the final name; otherwise the temporary file is removed and False
\* is returned.
AfterRun ==
  /\ conv_pc = "exited"
  /\ LET out == output_path(input_path)
         temp == temp_path(out)
     IN IF returncode = "ok"
        THEN /\ conv_files' = (conv_files \ {temp}) \cup {out}
             /\ conv_partial' = (conv_partial \ {out})
                                  \cup (IF temp \in conv_partial THEN {out} ELSE {})
             /\ IF delete_originals
                THEN /\ conv_pc' = "delete"
                     /\ UNCHANGED <<conv_return, cycle_failed, cycle_ok>>
                ELSE Return("True")
        ELSE /\ conv_files' = remove_temp(conv_files, temp)
             /\ conv_partial' = conv_partial \ {temp}
             /\ Return("False")
  /\ UNCHANGED <<delete_originals, watch_files, conv_videos, input_path, returncode,
                 final_before, run_found, added_since_scan, rerun_after,
                 scan_listed, scan_at, conv_adds>>
  /\ UNCHANGED convFrame

\* convert_video, delete_originals set: os.remove(input_path), return True.
DeleteOriginal ==
  /\ conv_pc = "delete"
  /\ watch_files' = watch_files \ {input_path}
  /\ Return("True")
  /\ UNCHANGED <<delete_originals, conv_files, conv_partial, conv_videos,
                 input_path, returncode, final_before, run_found,
                 added_since_scan, rerun_after, scan_listed, scan_at, conv_adds>>
  /\ UNCHANGED convFrame

\* The player lists the converted directory (MediaFrame.get_video_files).
PlayerScan ==
  /\ scan_listed' = scan_converted
  /\ scan_at' = conv_pc
  /\ UNCHANGED <<delete_originals, watch_files, conv_files, conv_partial,
                 conv_pc, conv_videos, input_path, returncode, conv_return,
                 final_before, run_found, cycle_failed, cycle_ok,
                 added_since_scan, rerun_after, conv_adds>>
  /\ UNCHANGED convFrame

\* A file is put into the watch directory.
AddOriginal ==
  /\ conv_adds < MaxAdds
  /\ conv_adds' = conv_adds + 1
  /\ \E file \in AllOriginals \ watch_files : watch_files' = watch_files \cup {file}
  /\ added_since_scan' = TRUE
  /\ UNCHANGED <<delete_originals, conv_files, conv_partial, conv_pc, conv_videos,
                 input_path, returncode, conv_return, final_before, run_found,
                 cycle_failed, cycle_ok, rerun_after, scan_listed, scan_at>>
  /\ UNCHANGED convFrame

\* VideoConverterService.__init__ on a watch directory with some files and an
\* empty converted directory; the player is not modelled beyond its scan.
ConverterInit ==
  /\ batch_size = 1
  /\ max_cache_size = 1
  /\ video_enabled = FALSE
  /\ dir_photos = 0
  /\ dir_videos = {}
  /\ dir_changes = 0
  /\ scaled_width = <<>>
  /\ image_files = <<>>
  /\ final_images = <<>>
  /\ tiler_done = FALSE
  /\ Started
  /\ delete_originals \in BOOLEAN
  /\ watch_files \in {S \in SUBSET AllOriginals : Cardinality(S) <= MaxOriginals}
  /\ conv_files = {}
  /\ conv_partial = {}
  /\ conv_pc = "idle"
  /\ conv_videos = <<>>
  /\ input_path = <<>>
  /\ returncode = "none"
  /\ conv_return = "none"
  /\ final_before = FALSE
  /\ run_found = -1
  /\ cycle_failed = FALSE
  /\ cycle_ok = 0
  /\ added_since_scan = FALSE
  /\ rerun_after = -1
  /\ scan_listed = {}
  /\ scan_at = "none"
  /\ conv_adds = 0
  /\ SlideshowOff

ConverterNext ==
  \/ RunOnce
  \/ ConvStart
  \/ EncoderExit
  \/ AfterRun
  \/ DeleteOriginal
  \/ PlayerScan
  \/ AddOriginal

ConverterSpec == ConverterInit /\ [][ConverterNext]_vars

\* ------------------------------------------------ the standalone slideshow
\* Slideshow.update_image on the list images with self.index = index, pending
\* update_image timers besides: the image at the index is put on the label,
\* the index moves on and update_image is scheduled again; past the last image
\* the label is cleared and root.quit is scheduled.
update_image(images, index, pending) ==
  IF index < Len(images)
  THEN /\ sl_photo' = images[index + 1]
       /\ sl_index' = index + 1
       /\ sl_after' = pending + 1
       /\ sl_quit' = FALSE
       /\ sl_displayed' = IF index = 0 THEN <<images[index + 1]>>
                          ELSE Append(sl_displayed, images[index + 1])
  ELSE /\ sl_photo' = NoCanvas
       /\ sl_index' = index
       /\ sl_after' = pending
       /\ sl_quit' = TRUE
       /\ sl_displayed' = sl_displayed

\* main, lines 55-58: the scan of the image directory.
MainScan ==
  /\ main_pc = "scan"
  /\ main_files' = get_image_files
  /\ main_i' = 0
  /\ IF get_image_files = <<>>
     THEN main_pc' = "done" /\ main_exit' = "no images"
     ELSE main_pc' = "for" /\ main_exit' = main_exit
  /\ UNCHANGED <<slideshow_created, sl_images, sl_index, sl_photo, sl_after,
                 sl_quit, sl_displayed>>
  /\ UNCHANGED showFrame

\* main, lines 60-70: one turn of the for loop up to root.mainloop().  The
\* tiler opens every file of the batch; a file that is gone raises, and main
\* catches nothing.
MainBatch ==
  /\ main_pc = "for"
  /\ LET image_batch == Slice(main_files, main_i, main_i + batch_size)
     IN IF main_i >= Len(main_files)
        THEN /\ main_pc' = "scan"
             /\ UNCHANGED <<main_i, main_exit, slideshow_created, sl_images,
                            sl_index, sl_photo, sl_after, sl_quit, sl_displayed>>
        ELSE IF \E k \in DOMAIN image_batch : ~Readable(image_batch[k])
        THEN /\ main_pc' = "done"
             /\ main_exit' = "FileNotFoundError"
             /\ UNCHANGED <<main_i, slideshow_created, sl_images, sl_index,
                            sl_photo, sl_after, sl_quit, sl_displayed>>
        ELSE /\ main_i' = main_i + batch_size
             /\ main_exit' = main_exit
             /\ IF create_combined_images(image_batch) = <<>>
                THEN /\ main_pc' = "for"
                     /\ UNCHANGED <<slideshow_created, sl_images, sl_index,
                                    sl_photo, sl_after, sl_quit, sl_displayed>>
                ELSE \* Slideshow(...) or slideshow.reset(...): index = 0 and
                     \* update_image(); then root.mainloop()
                     /\ main_pc' = "mainloop"
                     /\ slideshow_created' = TRUE
                     /\ sl_images' = create_combined_images(image_batch)
                     /\ update_image(create_combined_images(image_batch), 0, sl_after)
  /\ UNCHANGED main_files
  /\ UNCHANGED showFrame

\* root.after(delay, update_image) fires inside root.mainloop().
SlideTimer ==
  /\ main_pc = "mainloop"
  /\ sl_after > 0
  /\ update_image(sl_images, sl_index, sl_after - 1)
  /\ UNCHANGED <<main_pc, main_files, main_i, slideshow_created, sl_images,
                 main_exit>>
  /\ UNCHANGED showFrame

\* root.after(0, root.quit) fires: root.mainloop() returns to the for loop.
MainLoopQuit ==
  /\ main_pc = "mainloop"
  /\ sl_quit
  /\ sl_quit' = FALSE
  /\ main_pc' = "for"
  /\ UNCHANGED <<main_files, main_i, slideshow_created, sl_images, sl_index,
                 sl_photo, sl_after, sl_displayed, main_exit>>
  /\ UNCHANGED showFrame

\* A directory of photos none of which shares a canvas with another.
PortraitWidths == [p \in 1..MaxPhotos |-> IF p % 3 = 0 THEN 1300 ELSE 1000]

\* main() is entered, the media frame not running.
ShowInit ==
  /\ batch_size \in 1..MaxBatchSize
  /\ max_cache_size = 1
  /\ video_enabled = FALSE
  /\ dir_photos \in 0..MaxPhotos
  /\ dir_videos = {}
  /\ dir_changes = 0
  /\ scaled_width \in {PhotoWidths, PortraitWidths}
  /\ image_files = <<>>
  /\ final_images = <<>>
  /\ tiler_done = FALSE
  /\ ConverterOff
  /\ Started
  /\ main_pc = "scan"
  /\ main_files = <<>>
  /\ main_i = 0
  /\ slideshow_created = FALSE
  /\ sl_images = <<>>
  /\ sl_index = 0
  /\ sl_photo = NoCanvas
  /\ sl_after = 0
  /\ sl_quit = FALSE
  /\ sl_displayed = <<>>
  /\ main_exit = "running"

\* The slideshow's own steps.
ShowStep ==
  \/ MainScan
  \/ MainBatch
  \/ SlideTimer
  \/ MainLoopQuit

\* The slideshow runs while photos are put into and taken out of the directory.
ShowNext ==
  \/ MainScan
  \/ MainBatch
  \/ SlideTimer
  \/ MainLoopQuit
  \/ AddPhoto
  \/ RemovePhoto

ShowSpec == ShowInit /\ [][ShowNext]_vars /\ WF_vars(ShowStep)

\* The canvases tiled from photo slice b of the photo list.
BatchCanvases(b) ==
  create_combined_images(Slice(all_image_files, b * batch_size, (b + 1) * batch_size))

\* The photos of a list of canvases, canvas by canvas, left to right.
RECURSIVE PhotosOf(_)
PhotosOf(cs) == IF cs = <<>> THEN <<>> ELSE Head(cs).row \o PhotosOf(Tail(cs))

\* The entries of one kind, in queue order.
RECURSIVE EntriesOfKind(_, _)
EntriesOfKind(q, k) ==
  IF q = <<>> THEN <<>>
  ELSE (IF Head(q).kind = k THEN <<Head(q)>> ELSE <<>>) \o EntriesOfKind(Tail(q), k)

\* C1: on a non-empty queue the cursor is inside the queue,
\* 0 <= current_index < len(media_queue), whenever a callback has returned.
C1_CursorInsideQueue ==
  media_queue # <<>> => (0 <= current_index /\ current_index < Len(media_queue))

\* C2: in every reachable state 0 <= current_index <= len(media_queue), also
\* after a rebuild of the queue and after 'next' on an empty queue.
C2_CursorAtMostLen ==
  0 <= current_index /\ current_index <= Len(media_queue)

\* The advance triggers pending: scheduled show_next_media timers, and the
\* completion callback of a video the engine is playing.
AdvanceTriggers ==
  after_delay + after_100
  + (IF playing /\ on_complete_callback # "None" THEN 1 ELSE 0)

\* C3: at most one advance trigger is pending in every reachable state (a
\* pending one is cancelled before a new one is issued).
C3_AtMostOneTrigger == AdvanceTriggers <= 1

\* C4: a callback that finds the video at the cursor gone moves the cursor past
\* that entry and leaves the next entry scheduled within one 100 ms tick.
C4_MissingVideoSkipped ==
  trace.missing >= 0 =>
    /\ trace.err = "none"
    /\ current_index = trace.missing + 1
    /\ after_100 > 0

\* C5: a queue built for batch index b is every canvas of batch b as Photo
\* entries in order, then the one Video entry videoFiles[b mod len(videoFiles)]
\* when a video exists.
C5_PhotosThenOneVideo ==
  (trace.built /\ trace.err = "none") =>
    LET photos == BatchCanvases(current_batch_index)
        video == IF video_files = <<>> THEN <<>>
                 ELSE <<VideoEntry(video_files[(current_batch_index % Len(video_files)) + 1])>>
    IN media_queue = [i \in 1..Len(photos) |-> PhotoEntry(photos[i])] \o video

\* C6: the queue in force for batch k holds as Photo entries the canvases tiled
\* from photo slice k and no canvas of an earlier batch.
C6_OnlyCurrentBatchCanvases ==
  (trace.built /\ trace.err = "none") =>
    LET shownPhotos == EntriesOfKind(media_queue, "photo")
    IN [i \in 1..Len(shownPhotos) |-> shownPhotos[i].canvas]
         = BatchCanvases(current_batch_index)

C8_EveryBatchLoadedForever ==
  \A b \in 0..MaxPhotos :
    []<>(b * batch_size < Len(all_image_files)
           => (trace.loaded /\ trace.hasMore /\ trace.load_batch = b))

\* C9: after every batch load the collection holds at most max_cache_size * 3
\* canvases; the canvases closed are the oldest ones and the newest
\* max_cache_size * 3 are kept in their order.
C9_CacheBounded ==
  /\ Len(combined_images) <= max_cache_size * 3
  /\ (trace.loaded /\ trace.err = "none" /\ trace.hasMore) =>
       LET everything == trace.load_before \o create_combined_images(trace.load_slice)
       IN /\ trace.released \o combined_images = everything
          /\ Len(combined_images) = Min(Len(everything), max_cache_size * 3)

\* C9 witness: a load evicted at least one canvas.
C9_Witness ==
  /\ trace.loaded
  /\ trace.err = "none"
  /\ trace.released # <<>>

\* C10: loading batch b tiles exactly the photos at positions
\* [b * batch_size, (b + 1) * batch_size) of the photo list, returns hasMore =
\* (slice non-empty), and leaves the collection unchanged on an empty slice.
C10_LoadsExactSlice ==
  trace.loaded =>
    LET b == trace.load_batch
        lo == b * batch_size
        hi == Min((b + 1) * batch_size, Len(all_image_files))
        expected == [i \in 1..(IF hi > lo THEN hi - lo ELSE 0) |-> all_image_files[lo + i]]
        everything == trace.released \o combined_images
        tiled == SubSeq(everything, Len(trace.load_before) + 1, Len(everything))
    IN /\ b = current_batch_index
       /\ trace.load_slice = expected
       /\ trace.err = "none" =>
            /\ trace.hasMore = (expected # <<>>)
            /\ PhotosOf(tiled) = expected
       /\ expected = <<>> =>
            /\ combined_images = trace.load_before
            /\ trace.released = <<>>

\* C10 witness: batch 1 was loaded from a non-empty slice.
C10_Witness ==
  /\ trace.loaded
  /\ trace.err = "none"
  /\ trace.hasMore
  /\ trace.load_batch = 1

\* The entry of the queue at 0-based position i.
EntryAt(i) == media_queue[i + 1]

\* C11: 'previous' on a non-empty queue moves the cursor to (index - 1) mod
\* len(queue) and shows, without error, the entry there: a photo on the label
\* with its photo_delay timer armed, or a video playing with show_next_media as
\* its completion callback.
C11_PreviousShowsEntry ==
  (trace.op = "navigate_previous" /\ media_queue # <<>>) =>
    LET target == (trace.index_before - 1) % Len(media_queue)
    IN /\ trace.err = "none"
       /\ trace.shown = target
       /\ IF EntryAt(target).kind = "photo"
          THEN label_packed /\ label_image = EntryAt(target).canvas /\ after_delay > 0
          ELSE /\ playing
               /\ current_video = EntryAt(target).video
               /\ on_complete_callback = "show_next_media"

\* C12: 'next' pressed while a video plays stops the engine and cancels its
\* completion callback: after the key press the engine plays nothing, or plays
\* the video entry the key press has just started.
C12_NextStopsEngine ==
  [][(playing /\ on_complete_callback # "None"
        /\ trace'.op = "navigate_next" /\ trace'.err = "none")
       => (playing' =>
             /\ trace'.shown >= 0
             /\ media_queue'[trace'.shown + 1].kind = "video"
             /\ current_video' = media_queue'[trace'.shown + 1].video)
  ]_vars

\* Two key presses in a row, the first from a cursor strictly inside the
\* queue (neither the cursor nor the entry on screen is the first or the last
\* entry), neither of them failing, rolling over or finding a missing file.
MidQueuePair(first, second) ==
  /\ trace.op = first /\ trace'.op = second
  /\ trace.err = "none" /\ trace'.err = "none"
  /\ ~trace.boundary /\ ~trace'.boundary
  /\ trace.missing = -1 /\ trace'.missing = -1
  /\ media_queue' = media_queue
  /\ 2 <= trace.index_before /\ trace.index_before <= Len(media_queue) - 2

\* C13: from a stable mid-queue position 'previous' then 'next', and 'next'
\* then 'previous', each bring the cursor back to the index it started from.
C13_PreviousNextRoundTrip ==
  [][(\/ MidQueuePair("navigate_previous", "navigate_next")
      \/ MidQueuePair("navigate_next", "navigate_previous"))
       => current_index' = trace.index_before
  ]_vars

\* What a key press may change: the sequencer, Tk and engine state.
keyVars == <<all_image_files, video_files, current_batch_index, combined_images,
             media_queue, current_index, after_delay, after_100,
             refresh_scheduled, label_image, label_packed, frame_packed,
             playing, current_video, on_complete_callback, preload_threads>>

\* C14: a 'next' or 'previous' press is honoured only when key_debounce_time
\* has elapsed since the last honoured press of either key, and then restarts
\* the window; a press inside the window is ignored and changes neither the
\* cursor, the queue, the pending timers nor the debounce timestamp.
C14_Debounce ==
  [][(KeyNext \/ KeyPrevious) =>
       IF key_elapsed < DebounceTicks
       THEN /\ UNCHANGED <<keyVars, key_elapsed>>
            /\ trace'.op \in {"on_volume_up", "on_volume_down"}
       ELSE /\ key_elapsed' = 0
            /\ trace'.op \in {"navigate_next", "navigate_previous"}
  ]_vars

\* C14 witness: a press of 'previous' inside the window has just been ignored
\* while a timer is pending.
C14_Witness ==
  /\ trace.op = "on_volume_down"
  /\ key_elapsed < DebounceTicks
  /\ after_delay > 0

\* C15: with zero video files the queue holds Photo entries only and no
\* callback (timer, next, previous, rollover) asks the engine to play.
C15_NoVideosPhotoOnly ==
  video_files = <<>> =>
    /\ \A i \in DOMAIN media_queue : media_queue[i].kind = "photo"
    /\ ~trace.played

\* C15 witness: without videos, a rollover rebuilt a queue of at least two
\* photo entries and showed its first entry.
C15_Witness ==
  /\ video_files = <<>>
  /\ Len(media_queue) >= 2
  /\ trace.boundary
  /\ trace.built
  /\ trace.shown = 0

\* C16: the preload thread never writes the cursor, the batch index, the media
\* queue or the canvas collection (nor anything else the callbacks own).
C16_WorkerWritesNothing ==
  [][PreloadWorker =>
       UNCHANGED <<current_index, current_batch_index, media_queue,
                   combined_images, all_image_files, video_files>>
  ]_vars

\* C16 witness: the thread started by the last callback has run to its end,
\* with a next batch to slice, while a timer callback was pending.
C16_Witness ==
  /\ trace.preload
  /\ preload_threads = 0
  /\ (current_batch_index + 1) * batch_size < Len(all_image_files)
  /\ after_delay > 0

\* The cursor the last run of show_next_media tested at its preload check.
CheckIndex ==
  IF trace.op = "navigate_next" THEN trace.index_before + 1 ELSE trace.index_before

\* Position i is the halfway point of a queue of length n.
Halfway(i, n) == i > 0 /\ i \in {n \div 2, (n + 1) \div 2}

\* C17: an advance (which neither failed nor rolled over) starts the preload
\* of the next batch exactly when the cursor is at the halfway point of the
\* queue.
C17_PreloadAtHalfway ==
  (trace.op \in {"timer", "navigate_next"} /\ media_queue # <<>>
     /\ trace.err = "none" /\ ~trace.boundary)
    => (trace.preload <=> Halfway(CheckIndex, Len(media_queue)))

\* C18: a photo of the batch that cannot be decoded fails the whole load: the
\* canvas collection is as it was when the loader was entered (nothing added,
\* nothing evicted) and the media queue is not rebuilt.
C18_DecodeFailsWholeBatch ==
  [][trace'.err = "DecodeError" =>
       /\ trace'.loaded
       /\ combined_images' = trace'.load_before
       /\ trace'.released = <<>>
       /\ ~trace'.built
       /\ media_queue' = media_queue
  ]_vars

\* C18 witness: a load failed on a photo that is preceded in its batch by a
\* photo that can be decoded.
C18_Witness ==
  /\ trace.err = "DecodeError"
  /\ Len(trace.load_slice) >= 2
  /\ Readable(trace.load_slice[1])
  /\ combined_images # <<>>

\* C19: after a decode failure raised by the load at a queue boundary an
\* advance trigger is still pending, so playback goes on without user input.
C19_DecodeFailureKeepsPlaying ==
  (trace.err = "DecodeError" /\ trace.boundary) => AdvanceTriggers > 0

\* C20: play_video called with a path that does not exist calls on_complete
\* once and leaves current_video, the stored callback and the engine as they
\* were.
C20_MissingPathCompletesAtOnce ==
  [][trace'.on_complete_calls > 0 =>
       /\ trace'.on_complete_calls = 1
       /\ current_video' = current_video
       /\ on_complete_callback' = on_complete_callback
       /\ playing' = playing
  ]_vars

\* C20 witness: play_video met a missing path after another video had been
\* played with a callback stored.
C20_Witness ==
  /\ trace.on_complete_calls = 1
  /\ current_video # 0
  /\ current_video # EntryAt(trace.missing).video
  /\ on_complete_callback # "None"

\* C21: tiling puts every photo of the list in exactly one row of exactly one
\* canvas, and the photos read canvas by canvas, left to right, are the list
\* in its order; the empty list gives no canvas.
C21_EveryPhotoOnceInOrder ==
  tiler_done =>
    /\ PhotosOf(final_images) = image_files
    /\ image_files = <<>> => final_images = <<>>

\* C21 witness: four photos were tiled into at least two canvases, one of
\* which holds more than one photo.
C21_Witness ==
  /\ tiler_done
  /\ Len(image_files) = 4
  /\ Len(final_images) >= 2
  /\ \E k \in DOMAIN final_images : Len(final_images[k].row) >= 2

\* The width a row takes when packed: its images and one border between each
\* two of them.
PackedWidth(row) == total_image_width(row) + border_size * (Len(row) - 1)

\* A row made of one photo that is wider than the canvas.
WideAlone(row) == Len(row) = 1 /\ ScaledWidth(row[1]) > screen_width

\* C22 as stated: every row the tiler produces satisfies
\* sum(imageWidths) + borderSize * (count - 1) <= canvasWidth, for all sequences
\* of scaled photo widths.
C22_RowsWithinCanvas ==
  tiler_done =>
    \A k \in DOMAIN final_images : PackedWidth(final_images[k].row) <= screen_width

\* C22 amended: every row the tiler produces satisfies
\* sum(imageWidths) + borderSize * (count - 1) <= canvasWidth, except a row
\* made of a single photo that is itself wider than the canvas.
C22_RowsWithinCanvasUnlessWideAlone ==
  tiler_done =>
    \A k \in DOMAIN final_images :
      \/ WideAlone(final_images[k].row)
      \/ PackedWidth(final_images[k].row) <= screen_width

\* C22 happens: a row of several photos was packed and closed because the
\* next photo, not wider than the canvas, did not fit.
C22_Witness ==
  /\ tiler_done
  /\ \E k \in DOMAIN final_images :
       /\ Len(final_images[k].row) >= 2
       /\ k < Len(final_images)
       /\ ~WideAlone(final_images[k + 1].row)
       /\ PackedWidth(final_images[k].row)
            + border_size + ScaledWidth(final_images[k + 1].row[1]) > screen_width

\* C23: a photo whose scaled width exceeds the canvas width is never rejected:
\* wherever it occurs in the input, it forms its own one-element row, and a
\* canvas holding it is produced.
C23_WidePhotoOwnRow ==
  tiler_done =>
    \A i \in DOMAIN image_files :
      ScaledWidth(image_files[i]) > screen_width =>
        \E k \in DOMAIN final_images : final_images[k].row = <<image_files[i]>>

\* C23 happens: a photo wider than the canvas came in the middle of the list,
\* after a photo that left room in its row and before another photo.
C23_Witness ==
  /\ tiler_done
  /\ \E i \in DOMAIN image_files :
       /\ 1 < i /\ i < Len(image_files)
       /\ ScaledWidth(image_files[i]) > screen_width
       /\ ScaledWidth(image_files[i - 1]) <= 900
       /\ \E k \in DOMAIN final_images : final_images[k].row = <<image_files[i]>>

\* The sum of the widths of the first n photos of a row.
RECURSIVE WidthBefore(_, _)
WidthBefore(row, n) ==
  IF n = 0 THEN 0 ELSE WidthBefore(row, n - 1) + ScaledWidth(row[n])

\* C24: for a row of n images of total width W on a canvas of width C, the
\* margin is (C - W) integer-divided by (n + 1), image i (counted from 0) is
\* painted at x = margin * (i + 1) + the widths of the images before it, and
\* the painted width (n + 1) * margin + W is at most C.
C24_EvenMargins ==
  tiler_done =>
    \A k \in DOMAIN final_images :
      LET row    == final_images[k].row
          n      == Len(row)
          W      == WidthBefore(row, n)
          margin == (screen_width - W) \div (n + 1)
      IN /\ Len(final_images[k].x) = n
         /\ \A j \in 1..n :
              final_images[k].x[j] = margin * j + WidthBefore(row, j - 1)
         /\ (n + 1) * margin + W <= screen_width

\* C24 happens: a canvas was painted whose row has two images and whose
\* free width does not divide evenly among the margins.
C24_Witness ==
  /\ tiler_done
  /\ \E k \in DOMAIN final_images :
       LET row == final_images[k].row
       IN /\ Len(row) = 2
          /\ (screen_width - WidthBefore(row, 2)) % 3 # 0
          /\ final_images[k].x[1] > 0

\* The last callback displayed entry k of the queue and nothing has replaced it
\* since: entry k is on screen when the next event arrives.
OnScreen(k) ==
  /\ trace.err = "none"
  /\ trace.shown = k
  /\ 0 <= k /\ k < Len(media_queue)

\* C25: a 'next' press (honoured, not failing) displays the entry immediately
\* following the entry on screen, and rolls over to entry 0 of the next queue
\* after the last entry: no entry is skipped.
C25_NextShowsFollowing ==
  [][\A k \in 0..(Len(media_queue) - 1) :
       (KeyNext /\ OnScreen(k)
          /\ trace'.op = "navigate_next" /\ trace'.err = "none")
         => IF k + 1 < Len(media_queue)
            THEN ~trace'.boundary /\ trace'.shown = k + 1
            ELSE trace'.boundary /\ trace'.shown = 0
  ]_vars

\* C26: a 'previous' press (honoured, not failing) on a queue of two or more
\* entries displays the entry immediately preceding the entry on screen, the
\* last entry when the first is on screen, not the entry already on screen.
C26_PreviousShowsPreceding ==
  [][\A k \in 0..(Len(media_queue) - 1) :
       (KeyPrevious /\ OnScreen(k) /\ Len(media_queue) >= 2
          /\ trace'.op = "navigate_previous" /\ trace'.err = "none")
         => trace'.shown = (k - 1) % Len(media_queue)
  ]_vars

\* The longest queue: the canvases the cache keeps and every video.
MaxQueueLen == 3 * MaxCacheSize + MaxVideos

\* A timer fires and show_next_media runs.
TimerFires == TimerPhotoDelay \/ Timer100

\* What one timer-driven step does to a pass over the queue (player enabled):
\* a timer displays the entry at the cursor and leaves the cursor one past it,
\* or, with the cursor past the last entry, rolls over and displays entry 0;
\* the end of a video and the preload thread leave the cursor and the queue
\* alone.
PassStep ==
  video_enabled =>
    /\ (TimerFires /\ media_queue # <<>> /\ trace'.err = "none") =>
          /\ IF current_index < Len(media_queue)
             THEN ~trace'.boundary /\ trace'.shown = current_index
                  /\ media_queue' = media_queue
             ELSE trace'.boundary /\ trace'.shown = 0
          /\ current_index' = trace'.shown + 1
    /\ (VideoEnded \/ PreloadWorker) =>
          current_index' = current_index /\ media_queue' = media_queue

\* C27: under timer expiries and video completions only (player enabled, files
\* present) a pass displays every entry once, in queue order: entry 0 is
\* displayed first, each timer displays the entry after the one displayed
\* last, every entry of the queue is reached, and the rollover happens only
\* with the last entry displayed.
C27_PassInQueueOrder ==
  /\ (video_enabled /\ media_queue # <<>> /\ trace.op = "__init__")
        => (trace.shown = 0 /\ current_index = 1)
  /\ [][PassStep]_vars
  /\ \A k \in 0..MaxQueueLen :
       [](  (video_enabled /\ media_queue # <<>> /\ current_index = k)
         => <>(/\ trace.err = "none"
               /\ IF k < Len(media_queue) THEN trace.shown = k
                  ELSE trace.boundary /\ trace.shown = 0))

\* C28: whenever show_next_media or show_media_at_index_with_auto_advance
\* reads media_queue[current_index], 0 <= current_index < len(media_queue), in
\* every reachable state and under every interleaving of timer, completion,
\* next, previous and refresh events.
C28_ReadInsideQueue ==
  /\ trace.err # "IndexError"
  /\ trace.read_len # -1 =>
       (0 <= trace.read_index /\ trace.read_index < trace.read_len)

\* C28 happens: a callback that started with the cursor beyond the end of the
\* queue (a refresh has made the queue shorter) has read the queue.
C28_Witness ==
  /\ trace.read_len >= 1
  /\ trace.index_before > trace.read_len
  /\ trace.err = "none"

\* The canvases the Photo entries of the queue refer to.
QueueCanvases ==
  {media_queue[i].canvas : i \in {j \in DOMAIN media_queue : media_queue[j].kind = "photo"}}

\* The elements of a sequence.
Range(seq) == {seq[i] : i \in DOMAIN seq}

\* C29: no released canvas is rendered: whenever an entry may be displayed,
\* every Photo entry of the queue refers to a canvas that the collection still
\* holds and that has not been closed; canvases are closed only by the eviction
\* of the batch cache, inside a load that has filled the collection beyond
\* max_cache_size * 3.
C29_QueueCanvasesHeld ==
  /\ QueueCanvases \subseteq Range(combined_images)
  /\ QueueCanvases \cap Range(trace.released) = {}
  /\ (label_packed /\ trace.shown >= 0 /\ EntryAt(trace.shown).kind = "photo")
       => label_image \in Range(combined_images)
  /\ trace.released # <<>> =>
       /\ trace.loaded /\ trace.hasMore
       /\ Len(combined_images) = max_cache_size * 3

\* C29 happens: a load at the end of the queue evicted a canvas that the queue
\* showed before, the queue was rebuilt and its first canvas is on screen.
C29_Witness ==
  /\ trace.boundary
  /\ trace.released # <<>>
  /\ trace.built
  /\ trace.shown = 0
  /\ label_packed
  /\ label_image = combined_images[1]

\* C30: the advance step is defined for every batch_size >= 1: the preload
\* check of show_next_media never raises, also for batch_size = 1 with
\* current_index > 0.
C30_PreloadCheckDefined ==
  trace.op \in {"timer", "navigate_next", "__init__"} => trace.err # "ZeroDivisionError"

\* C31: every canvas the tiler returns holds at least one photo (no row is
\* closed while empty), so there are never more canvases than input photos,
\* also when the first photo of the list is wider than the canvas.
C31_NoEmptyCanvas ==
  tiler_done =>
    /\ \A k \in DOMAIN final_images : final_images[k].row # <<>>
    /\ Len(final_images) <= Len(image_files)

\* C32: row packing is greedy-maximal: a row is closed before photo p only if
\* the row with p added would violate
\* sum(imageWidths) + borderSize * (count - 1) <= canvasWidth; a photo that
\* still fits under that bound joins the current row.
C32_GreedyMaximal ==
  tiler_done =>
    \A k \in DOMAIN final_images :
      k < Len(final_images) =>
        PackedWidth(Append(final_images[k].row, final_images[k + 1].row[1]))
          > screen_width

\* C33: with the video player disabled no video entry is handed to the engine
\* under any sequence of timer, next and previous events: a callback that
\* reaches a video entry skips it without error, moves the cursor past it and
\* leaves the following entry scheduled after 100 ms.
C33_DisabledPlayerSkipsVideos ==
  ~video_enabled =>
    /\ ~trace.played
    /\ ~playing
    /\ (trace.read_len # -1 /\ EntryAt(trace.read_index).kind = "video") =>
         /\ trace.err = "none"
         /\ current_index = trace.read_index + 1
         /\ after_100 > 0

\* C34: refresh_media detects media changes: when the number of photos or of
\* videos found by the rescan differs from the previous scan, the batch index
\* is reset to 0, the collection is discarded, the first batch of the new photo
\* list is loaded and the queue rebuilt; when neither count changed, batch
\* index, collection and queue stay as they are.
C34_RefreshDetectsChanges ==
  [][Refresh =>
       IF Len(get_image_files) # Len(all_image_files)
          \/ Len(get_video_files) # Len(video_files)
       THEN /\ current_batch_index' = 0
            /\ all_image_files' = get_image_files
            /\ video_files' = get_video_files
            /\ combined_images' =
                 create_combined_images(Slice(get_image_files, 0, batch_size))
            /\ trace'.built
            /\ media_queue' = Alternate(combined_images', get_video_files, 0)
       ELSE /\ current_batch_index' = current_batch_index
            /\ combined_images' = combined_images
            /\ media_queue' = media_queue
  ]_vars

\* Unattended running: no key is pressed; the timers, the engine, the preload
\* thread and the periodic refresh run, and the media directory may change.
UnattendedNext ==
  \/ TimerPhotoDelay
  \/ Timer100
  \/ VideoEnded
  \/ PreloadWorker
  \/ Refresh
  \/ AddPhoto
  \/ RemovePhoto
  \/ AddVideo
  \/ RemoveVideo

\* Tk fires every due timer (the refresh timer included), the engine plays a
\* video to its end and a started thread runs to its end.
UnattendedSpec ==
  /\ Init
  /\ [][UnattendedNext]_vars
  /\ WF_vars(TimerPhotoDelay)
  /\ WF_vars(Timer100)
  /\ WF_vars(VideoEnded)
  /\ WF_vars(PreloadWorker)
  /\ WF_vars(Refresh)

\* C35: when the queue is empty (as after a start-up on an empty directory)
\* and photos or videos are in the media directory, then, the refresh running,
\* playback eventually starts without user input: some entry is displayed.
C35_EmptyStartRecovers ==
  (media_queue = <<>> /\ (dir_photos > 0 \/ dir_videos # {}))
    ~> (trace.shown >= 0)

\* C36: convert_video removes the original only after the encoder exited
\* with status 0 and the temporary output was renamed to the final path; on
\* encoder failure, timeout or exception it returns False, the original still
\* exists, the final path is as it was before the attempt and the temporary
\* file is removed.
C36_OriginalRemovedOnlyAfterSuccess ==
  [][LET out == output_path(input_path)
         temp == temp_path(out)
     IN /\ (input_path \in watch_files /\ input_path \notin watch_files') =>
             /\ returncode = "ok"
             /\ out \in conv_files /\ out \notin conv_partial
             /\ temp \notin conv_files
        /\ (conv_pc = "exited" /\ conv_pc' # "exited" /\ returncode # "ok") =>
             /\ conv_return' = "False"
             /\ input_path \in watch_files'
             /\ temp \notin conv_files'
             /\ (out \in conv_files') = final_before
        /\ (conv_return # "True" /\ conv_return' = "True") =>
             /\ returncode = "ok"
             /\ out \in conv_files' /\ out \notin conv_partial'
  ]_vars

\* C36 happens: in one cycle a conversion succeeded and its original was
\* removed, and a later conversion, timed out with its temporary file written,
\* has returned False.
C36_Witness ==
  /\ delete_originals
  /\ cycle_ok >= 1
  /\ conv_return = "False"
  /\ returncode = "timeout"
  /\ conv_pc # "exited"
  /\ input_path \in watch_files

\* C37: under every interleaving of the converter with the player's scan of
\* the converted directory the scan lists no partially written output: a file
\* being written is not a name the scan's filter accepts, and a name the filter
\* accepts appears only by the rename that follows exit status 0, complete.
C37_ScanNeverListsPartial ==
  [][/\ PlayerScan => scan_listed' \cap conv_partial = {}
     /\ \A file \in conv_partial' : ~is_video_name(file)
     /\ \A file \in conv_files' \ conv_files :
          is_video_name(file) =>
            /\ conv_pc = "exited" /\ returncode = "ok"
            /\ file = output_path(input_path)
            /\ temp_path(file) \in conv_files /\ temp_path(file) \notin conv_files'
  ]_vars

\* C37 happens: the player scanned the converted directory while the encoder
\* was writing, and listed an output converted before.
C37_Witness ==
  /\ scan_at = "encoding"
  /\ scan_listed # {}
  /\ conv_partial # {}

\* C38: a video whose converted output exists is not selected again: a
\* run_once that follows a cycle in which every conversion succeeded, with no
\* file added in between, finds zero videos, whether or not originals are
\* deleted.
C38_NoReconversion ==
  rerun_after >= 0 => run_found = 0

\* C38 happens: originals are kept, the previous cycle converted two videos and
\* the run_once after it has scanned the directory, the originals still there.
C38_Witness ==
  /\ ~delete_originals
  /\ rerun_after >= 2
  /\ conv_pc = "idle"
  /\ \E file \in watch_files : output_path(file) \in conv_files

\* C39: the standalone Slideshow keeps 0 <= index <= len(combined_images) and
\* displays each combined image of the current batch once, in list order,
\* before the main loop is quit; main shows the batches one after the other,
\* rescans the directory after the last batch, and ends only when a rescan
\* finds no images.
C39_StandaloneSlideshow ==
  /\ 0 <= sl_index /\ sl_index <= Len(sl_images)
  /\ sl_displayed = SubSeq(sl_images, 1, sl_index)
  /\ (slideshow_created /\ (sl_quit \/ main_pc # "mainloop"))
       => sl_displayed = sl_images
  /\ main_pc = "mainloop" =>
       sl_images = create_combined_images(
                     Slice(main_files, main_i - batch_size, main_i))
  /\ main_pc = "scan" => main_i >= Len(main_files)
  /\ main_pc = "done" => main_exit = "no images"

====
